---- MODULE Spec2Model ----
(***************************************************************************)
(* Model of tools/warp-plus-keygen.py: the seed-key loader get_base_keys,  *)
(* the retry loop of generate_single_key and the top-level handler main.   *)
(*                                                                         *)
(* Strings are sequences of one-character strings, so that split(",") and  *)
(* strip() are computed as Python computes them.  A JSON object is a       *)
(* function from its keys to its values; a missing key is a key outside    *)
(* its DOMAIN (Python raises KeyError on it).                              *)
(*                                                                         *)
(* Writes to the standard streams and time.sleep are taken to return       *)
(* normally unless the operator interrupts them.                           *)
(***************************************************************************)
EXTENDS Integers, Sequences, FiniteSets, TLC

VARIABLES
    pc,            \* position of the single thread of control
    fetch,         \* how the seed-key GET ended: "pending", "ok" or an exception class
    body,          \* text of the seed-key response (when fetch = "ok")
    base_keys,     \* generate_single_key: base_keys
    retry_count,   \* generate_single_key: retry_count
    clientOpen,    \* number of httpx.Client objects opened and not yet closed
    r,             \* generate_single_key: r, the last response bound to r
    id1, license, token1, id2, token2,     \* locals of generate_single_key
    base_key, final_license,               \* locals of generate_single_key
    account_type, referral_count,          \* locals of generate_single_key
    exc,           \* class of the exception raised last in generate_single_key
    stdout,        \* lines written to standard output
    stderr,        \* lines written to standard error, as <<text, number, value>>
    sleeps,        \* durations of the time.sleep calls that returned
    exit_status,   \* process exit status, Running until the process exits
    attempt,       \* number of passes through the while body started so far
    sent,          \* requests issued by the attempt in progress, in order
    status,        \* HTTP status of the last completed response of the attempt (0: none)
    accounts,      \* provider side: account id -> attempt that created it, license given
    deleted,       \* provider side: account ids a DELETE was issued for
    nReq,          \* number of provider-API requests issued in the run
    nPost          \* number of POST /reg requests issued in the run

vars == << pc, fetch, body, base_keys, retry_count, clientOpen, r, id1, license,
           token1, id2, token2, base_key, final_license, account_type,
           referral_count, exc, stdout, stderr, sleeps, exit_status, attempt,
           sent, status, accounts, deleted, nReq, nPost >>

----------------------------------------------------------------------------
(* Program constants *)

max_retries == 3

SleepHTTP == 5

SleepRequest == 5

SleepUnexpected == 10

ExitCancelled == 130

Running == 0 - 1

FallbackKeys ==
    << <<"Q","i","2","8","6","N","5","r","-","v","4","R","0","5","p","T","1","-","3","H","l","8","V","2","4","w">>,
       <<"m","J","9","t","3","X","8","2","-","N","7","h","B","4","6","s","9","-","D","q","5","y","P","1","3","f">>,
       <<"Y","k","1","4","7","R","6","p","-","b","2","S","9","8","v","T","4","-","M","w","3","n","H","7","1","x">> >>

----------------------------------------------------------------------------
(* str.split(","), str.strip() and the list comprehension of get_base_keys *)

IsSpace(c) == c \in {" ", "\n", "\t"}

RECURSIVE lstrip(_)
lstrip(s) ==
    IF s = <<>> THEN <<>>
    ELSE IF IsSpace(Head(s)) THEN lstrip(Tail(s)) ELSE s

RECURSIVE rstrip(_)
rstrip(s) ==
    IF s = <<>> THEN <<>>
    ELSE IF IsSpace(s[Len(s)]) THEN rstrip(SubSeq(s, 1, Len(s) - 1)) ELSE s

stripLeftOnly(s) == lstrip(s)

strip(s) == rstrip(lstrip(s))

RECURSIVE split(_)
split(s) ==
    LET commas == { i \in 1..Len(s) : s[i] = "," } IN
    IF commas = {} THEN << s >>
    ELSE LET i == CHOOSE j \in commas : \A k \in commas : j <= k IN
         << SubSeq(s, 1, i - 1) >> \o split(SubSeq(s, i + 1, Len(s)))

ParseKeys(keys_str) ==
    LET parts    == split(keys_str)
        stripped == [ i \in 1..Len(parts) |-> strip(parts[i]) ]
    IN  SelectSeq(stripped, LAMBDA k : k # <<>>)

----------------------------------------------------------------------------
(* Values the environment can supply *)

K1 == <<"K","1">>

K2 == <<"K","2">>

K3 == <<"K","3">>

\* Seed-key documents: "", " , ", "K1\n", "K1, K2 ,"
Bodies ==
    { <<>>,
      <<" ", ",", " ">>,
      K1 \o <<"\n">>,
      K1 \o <<",", " ">> \o K2 \o <<" ", ",">> }

\* longest seed-key document enumerated exhaustively
MaxBodyLen == 4

BodyChars == { "a", "b", ",", " " }

RECURSIVE StringsUpTo(_)
StringsUpTo(n) ==
    IF n = 0 THEN { <<>> }
    ELSE LET shorter == StringsUpTo(n - 1)
         IN  shorter \cup { Append(w, c) : w \in { x \in shorter : Len(x) = n - 1 },
                                          c \in BodyChars }

\* "K1, K2 ,K3"
ExampleBody == K1 \o <<",", " ">> \o K2 \o <<" ", ",">> \o K3

\* "K1,K1,\tK2\n": a duplicate, a tab and a final newline
DuplicateBody == K1 \o <<",">> \o K1 \o <<",", "\t">> \o K2 \o <<"\n">>

\* Seed-key documents for the loader taken alone
ParseBodies == StringsUpTo(MaxBodyLen) \cup { ExampleBody, DuplicateBody }

\* Exception classes requests.get / raise_for_status / decode can raise
SeedFailures == { "ConnectionError", "HTTPError", "UnicodeDecodeError" }

\* The license the provider gives account i at registration (one per account)
LicenseOf(i) == << "L", <<"1","2","3","4","5","6">>[i] >>

Statuses == { 200, 500 }

TokenOf(i) == << "T", i >>

NoJson == [ k \in {} |-> 0 ]

\* Bodies a successful POST /reg response can carry for a new account i:
\* the expected object and one without "token".
RegJsons(i) ==
    { [ id |-> i, account |-> [ license |-> LicenseOf(i) ], token |-> TokenOf(i) ],
      [ id |-> i, account |-> [ license |-> LicenseOf(i) ] ] }

\* Bodies a successful GET /reg/{id}/account response can carry, l the license
\* it reports: the expected object and one with the referral count only.
AccountJsons(l) ==
    { [ account_type |-> "limited", referral_count |-> 10, license |-> l ],
      [ referral_count |-> 10 ] }

\* The license the final GET can report for account i after seed key k was
\* put and the original license put back: the provider may have applied
\* both PUTs, or only the first.
ReportedLicenses(i, k) == { LicenseOf(i), k }

Has(json, k) == k \in DOMAIN json

----------------------------------------------------------------------------
(* The program *)

\* positions inside "with httpx.Client(...) as client", which is the try body
InWith == { "post1", "post2", "patch", "delete2", "put_base_key", "put_license",
            "get", "delete1", "print", "report" }

raise_for_status_never(resp) == FALSE

\* httpx.Response.raise_for_status: TRUE when it raises HTTPStatusError
raise_for_status(resp) == resp.status < 200 \/ resp.status > 299

SeedExceptConnectionOnly(e) == e = "ConnectionError"

\* "except Exception" of get_base_keys: does it catch class e
SeedExcept(e) == e # "KeyboardInterrupt"

ExceptClauseBare(e) ==
    CASE e = "HTTPStatusError"   -> "HTTP error occurred"
      [] e = "RequestError"      -> "Request error occurred"
      [] OTHER                   -> "Unexpected error"

\* the except clauses of generate_single_key: the clause that catches class e,
\* named by the text it logs; "" when none does
ExceptClause(e) ==
    CASE e = "HTTPStatusError"   -> "HTTP error occurred"
      [] e = "RequestError"      -> "Request error occurred"
      [] e = "KeyboardInterrupt" -> ""
      [] OTHER                   -> "Unexpected error"

SleepSecondsFlat(clause) == SleepHTTP

\* the time.sleep argument of each except clause
SleepSeconds(clause) ==
    CASE clause = "HTTP error occurred"    -> SleepHTTP
      [] clause = "Request error occurred" -> SleepRequest
      [] OTHER                             -> SleepUnexpected

SleepGuardInclusive(n) == n <= max_retries

\* "if retry_count < max_retries" guarding each time.sleep
SleepGuard(n) == n < max_retries

WhileGuardInclusive(n) == n <= max_retries

\* the while condition
WhileGuard(n) == n < max_retries

ClientExitOnReturnOnly(n, e) == IF e = "" THEN n - 1 ELSE n

\* httpx.Client.__exit__ when the with block is left, e the exception in
\* flight ("" on return): the client is closed
ClientExit(n, e) == n - 1

ChoiceOfFallback(keys) == { FallbackKeys[i] : i \in 1..Len(FallbackKeys) }

\* random.choice(base_keys): the values it can return
Choice(keys) == { keys[i] : i \in 1..Len(keys) }

\* r.json()["license"] of the final account info
ReadLicenseStale(json) == license

ReadLicense(json) == json.license

MainExceptAllFatal(e) == [ line |-> << "Fatal error", 0, e >>, code |-> 1 ]

\* main's except clauses: the line logged and the exit status
MainExcept(e) ==
    IF e = "KeyboardInterrupt"
    THEN [ line |-> << "Cancelled by user", 0, "" >>, code |-> ExitCancelled ]
    ELSE [ line |-> << "Fatal error", 0, e >>, code |-> 1 ]

locals == << id1, license, token1, id2, token2, base_key, final_license,
             account_type, referral_count >>

control == << pc, retry_count, clientOpen, exc, stderr, exit_status >>

Init ==
    /\ pc = "get_base_keys"
    /\ fetch = "pending"
    /\ body = <<>>
    /\ base_keys = <<>>
    /\ retry_count = 0
    /\ clientOpen = 0
    /\ r = [ status |-> 0, json |-> NoJson ]
    /\ id1 = 0 /\ license = <<>> /\ token1 = <<>>
    /\ id2 = 0 /\ token2 = <<>>
    /\ base_key = <<>> /\ final_license = <<>>
    /\ account_type = "" /\ referral_count = 0
    /\ exc = ""
    /\ stdout = <<>>
    /\ stderr = <<>>
    /\ sleeps = <<>>
    /\ exit_status = Running
    /\ attempt = 0
    /\ sent = <<>>
    /\ status = 0
    /\ accounts = <<>>
    /\ deleted = {}
    /\ nReq = 0
    /\ nPost = 0

Goto(next) ==
    /\ pc' = next
    /\ UNCHANGED << retry_count, clientOpen, exc, stderr, exit_status >>

\* An exception of class e leaves the statement at pc: the with block, when
\* inside it, closes the client; then the except clause of generate_single_key
\* that catches e runs up to its sleep, or e propagates to main.
Raise(e) ==
    LET clause == IF pc \in InWith THEN ExceptClause(e) ELSE ""
        n      == retry_count + 1
    IN  /\ exc' = e
        /\ clientOpen' = IF pc \in InWith THEN ClientExit(clientOpen, e) ELSE clientOpen
        /\ IF clause # ""
           THEN /\ retry_count' = n
                /\ stderr' = Append(stderr, << clause, n, "" >>)
                /\ pc' = IF SleepGuard(n) THEN "sleep" ELSE "while"
                /\ UNCHANGED exit_status
           ELSE /\ stderr' = Append(stderr, MainExcept(e).line)
                /\ exit_status' = MainExcept(e).code
                /\ pc' = "exited"
                /\ UNCHANGED retry_count

\* client.<method>(...): the request is handed to the transport
Issue(req) ==
    /\ sent' = Append(sent, req)
    /\ nReq' = nReq + 1

Bearer(token) == << "Bearer", token >>

Request(m, id, sub, auth, json) ==
    [ method |-> m, id |-> id, sub |-> sub, auth |-> auth, json |-> json ]

\* the try body of get_base_keys for a response whose decoded content is b
get_base_keys_ok(b) ==
    /\ pc = "get_base_keys"
    /\ fetch' = "ok"
    /\ body' = b
    /\ base_keys' = ParseKeys(b)
    /\ Goto("while")
    /\ UNCHANGED << r, locals, stdout, sleeps, attempt, sent, status, accounts,
                    deleted, nReq, nPost >>

(* get_base_keys, the GET succeeded and the body decoded *)
get_base_keys_return == \E b \in Bodies : get_base_keys_ok(b)

\* the try body of get_base_keys raised e: the except clause returns the
\* hardcoded keys when it catches e, else e propagates
get_base_keys_raise(e) ==
    /\ fetch' = e
    /\ IF SeedExcept(e)
       THEN /\ base_keys' = FallbackKeys
            /\ Goto("while")
       ELSE /\ Raise(e)
            /\ UNCHANGED base_keys

(* get_base_keys, the try body raised an Exception *)
get_base_keys_except ==
    /\ pc = "get_base_keys"
    /\ \E e \in SeedFailures : get_base_keys_raise(e)
    /\ UNCHANGED << body, r, locals, stdout, sleeps, attempt, sent, status,
                    accounts, deleted, nReq, nPost >>

while_enter_cleanup ==
    /\ pc = "while"
    /\ WhileGuard(retry_count)
    /\ attempt' = attempt + 1
    /\ clientOpen' = clientOpen + 1
    /\ sent' = <<>>
    /\ status' = 0
    /\ pc' = "post1"
    /\ deleted' = deleted \cup (IF id1 = 0 THEN {} ELSE { id1 })
    /\ UNCHANGED << fetch, body, base_keys, retry_count, r, locals, exc, stdout,
                    stderr, sleeps, exit_status, accounts, nReq, nPost >>

while_enter_reload ==
    /\ pc = "while"
    /\ WhileGuard(retry_count)
    /\ attempt' = attempt + 1
    /\ clientOpen' = clientOpen + 1
    /\ sent' = <<>>
    /\ status' = 0
    /\ pc' = "post1"
    /\ base_keys' = IF retry_count = 0 THEN base_keys ELSE FallbackKeys
    /\ UNCHANGED << fetch, body, retry_count, r, locals, exc, stdout,
                    stderr, sleeps, exit_status, accounts, deleted, nReq, nPost >>

(* while retry_count < max_retries: ... with httpx.Client(...) as client *)
while_enter ==
    /\ pc = "while"
    /\ WhileGuard(retry_count)
    /\ attempt' = attempt + 1
    /\ clientOpen' = clientOpen + 1
    /\ sent' = <<>>
    /\ status' = 0
    /\ pc' = "post1"
    /\ UNCHANGED << fetch, body, base_keys, retry_count, r, locals, exc, stdout,
                    stderr, sleeps, exit_status, accounts, deleted, nReq, nPost >>

(* the loop ends: print("Failed to generate ..."); sys.exit(1) *)
while_exit ==
    /\ pc = "while"
    /\ ~ WhileGuard(retry_count)
    /\ stderr' = Append(stderr, << "Failed to generate WARP+ key after all retries", 0, "" >>)
    /\ exit_status' = 1
    /\ pc' = "exited"
    /\ UNCHANGED << fetch, body, base_keys, retry_count, clientOpen, r, locals,
                    exc, stdout, sleeps, attempt, sent, status, accounts, deleted,
                    nReq, nPost >>

(* time.sleep(...) of an except clause returns *)
sleep_return ==
    /\ pc = "sleep"
    /\ sleeps' = Append(sleeps, SleepSeconds(ExceptClause(exc)))
    /\ Goto("while")
    /\ UNCHANGED << fetch, body, base_keys, r, locals, stdout, attempt, sent,
                    status, accounts, deleted, nReq, nPost >>

\* a request whose response is not examined: any status continues with the
\* next statement, a transport error raises httpx.RequestError
Unchecked(req, next) ==
    /\ Issue(req)
    /\ \/ \E s \in Statuses : status' = s /\ Goto(next)
       \/ status' = 0 /\ Raise("RequestError")

(* r = client.post("/reg"); r.raise_for_status(); id1, license, token1 *)
post1 ==
    /\ pc = "post1"
    /\ Issue(Request("POST", 0, "", <<>>, NoJson))
    /\ nPost' = nPost + 1
    /\ \/ /\ status' = 0
          /\ Raise("RequestError")
          /\ UNCHANGED << r, accounts, id1, license, token1 >>
       \/ \E s \in Statuses :
          \E j \in IF s = 200 THEN RegJsons(Len(accounts) + 1) ELSE { NoJson } :
            LET resp == [ status |-> s, json |-> j ]
                gotId      == Has(j, "id")
                gotLicense == gotId /\ Has(j, "account") /\ Has(j.account, "license")
                gotToken   == gotLicense /\ Has(j, "token")
            IN  /\ status' = s
                /\ r' = resp
                /\ accounts' = IF s = 200
                               THEN Append(accounts, [ attempt |-> attempt,
                                                       license |-> LicenseOf(Len(accounts) + 1) ])
                               ELSE accounts
                /\ IF raise_for_status(resp)
                   THEN /\ Raise("HTTPStatusError")
                        /\ UNCHANGED << id1, license, token1 >>
                   ELSE /\ id1' = IF gotId THEN j.id ELSE id1
                        /\ license' = IF gotLicense THEN j.account.license ELSE license
                        /\ token1' = IF gotToken THEN j.token ELSE token1
                        /\ IF gotToken THEN Goto("post2") ELSE Raise("KeyError")
    /\ UNCHANGED << fetch, body, base_keys, id2, token2, base_key, final_license,
                    account_type, referral_count, stdout, sleeps, attempt, deleted >>

(* r = client.post("/reg"); r.raise_for_status(); id2, token2 *)
post2 ==
    /\ pc = "post2"
    /\ Issue(Request("POST", 0, "", <<>>, NoJson))
    /\ nPost' = nPost + 1
    /\ \/ /\ status' = 0
          /\ Raise("RequestError")
          /\ UNCHANGED << r, accounts, id2, token2 >>
       \/ \E s \in Statuses :
          \E j \in IF s = 200 THEN RegJsons(Len(accounts) + 1) ELSE { NoJson } :
            LET resp == [ status |-> s, json |-> j ]
                gotId    == Has(j, "id")
                gotToken == gotId /\ Has(j, "token")
            IN  /\ status' = s
                /\ r' = resp
                /\ accounts' = IF s = 200
                               THEN Append(accounts, [ attempt |-> attempt,
                                                       license |-> LicenseOf(Len(accounts) + 1) ])
                               ELSE accounts
                /\ IF raise_for_status(resp)
                   THEN /\ Raise("HTTPStatusError")
                        /\ UNCHANGED << id2, token2 >>
                   ELSE /\ id2' = IF gotId THEN j.id ELSE id2
                        /\ token2' = IF gotToken THEN j.token ELSE token2
                        /\ IF gotToken THEN Goto("patch") ELSE Raise("KeyError")
    /\ UNCHANGED << fetch, body, base_keys, id1, license, token1, base_key,
                    final_license, account_type, referral_count, stdout, sleeps,
                    attempt, deleted >>

patch_skips_delete ==
    /\ pc = "patch"
    /\ Unchecked(Request("PATCH", id1, "", Bearer(token1), [ referrer |-> id2 ]), "put_base_key")
    /\ UNCHANGED << fetch, body, base_keys, r, locals, stdout, sleeps, attempt,
                    accounts, deleted, nPost >>

(* client.patch(f"/reg/{id1}", headers=headers_post, json={"referrer": id2}) *)
patch ==
    /\ pc = "patch"
    /\ Unchecked(Request("PATCH", id1, "", Bearer(token1), [ referrer |-> id2 ]), "delete2")
    /\ UNCHANGED << fetch, body, base_keys, r, locals, stdout, sleeps, attempt,
                    accounts, deleted, nPost >>

delete2_with_token1 ==
    /\ pc = "delete2"
    /\ Unchecked(Request("DELETE", id2, "", Bearer(token1), NoJson), "put_base_key")
    /\ deleted' = deleted \cup { id2 }
    /\ UNCHANGED << fetch, body, base_keys, r, locals, stdout, sleeps, attempt,
                    accounts, nPost >>

(* client.delete(f"/reg/{id2}", headers=headers_get2) *)
delete2 ==
    /\ pc = "delete2"
    /\ Unchecked(Request("DELETE", id2, "", Bearer(token2), NoJson), "put_base_key")
    /\ deleted' = deleted \cup { id2 }
    /\ UNCHANGED << fetch, body, base_keys, r, locals, stdout, sleeps, attempt,
                    accounts, nPost >>

(* base_key = random.choice(base_keys); client.put(f"/reg/{id1}/account", ...) *)
put_base_key ==
    /\ pc = "put_base_key"
    /\ \/ /\ base_keys = <<>>
          /\ Raise("IndexError")
          /\ UNCHANGED << base_key, sent, status, nReq >>
       \/ \E k \in Choice(base_keys) :
          /\ base_key' = k
          /\ Unchecked(Request("PUT", id1, "account", Bearer(token1), [ license |-> k ]),
                       "put_license")
    /\ UNCHANGED << fetch, body, base_keys, r, id1, license, token1, id2, token2,
                    final_license, account_type, referral_count, stdout, sleeps,
                    attempt, accounts, deleted, nPost >>

(* client.put(f"/reg/{id1}/account", headers=headers_post, json={"license": license}) *)
put_license ==
    /\ pc = "put_license"
    /\ Unchecked(Request("PUT", id1, "account", Bearer(token1), [ license |-> license ]), "get")
    /\ UNCHANGED << fetch, body, base_keys, r, locals, stdout, sleeps, attempt,
                    accounts, deleted, nPost >>

(* r = client.get(f"/reg/{id1}/account", ...); r.raise_for_status();
   account_type, referral_count, final_license *)
get ==
    /\ pc = "get"
    /\ Issue(Request("GET", id1, "account", Bearer(token1), NoJson))
    /\ \/ /\ status' = 0
          /\ Raise("RequestError")
          /\ UNCHANGED << r, account_type, referral_count, final_license >>
       \/ \E s \in Statuses, l \in ReportedLicenses(id1, base_key) :
          \E j \in IF s = 200 THEN AccountJsons(l) ELSE { NoJson } :
            LET resp == [ status |-> s, json |-> j ]
            IN  /\ status' = s
                /\ r' = resp
                /\ IF raise_for_status(resp)
                   THEN /\ Raise("HTTPStatusError")
                        /\ UNCHANGED << account_type, referral_count, final_license >>
                   ELSE /\ account_type' = IF Has(j, "account_type") THEN j.account_type ELSE ""
                        /\ referral_count' = IF Has(j, "referral_count") THEN j.referral_count ELSE 0
                        /\ final_license' = IF Has(j, "license") THEN ReadLicense(j) ELSE final_license
                        /\ IF Has(j, "license") THEN Goto("delete1") ELSE Raise("KeyError")
    /\ UNCHANGED << fetch, body, base_keys, id1, license, token1, id2, token2,
                    base_key, stdout, sleeps, attempt, accounts, deleted, nPost >>

delete1_after_print ==
    /\ pc = "delete1"
    /\ stdout' = Append(stdout, final_license)
    /\ Unchecked(Request("DELETE", id1, "", Bearer(token1), NoJson), "report")
    /\ deleted' = deleted \cup { id1 }
    /\ UNCHANGED << fetch, body, base_keys, r, locals, sleeps, attempt,
                    accounts, nPost >>

(* client.delete(f"/reg/{id1}", headers=headers_get1) *)
delete1 ==
    /\ pc = "delete1"
    /\ Unchecked(Request("DELETE", id1, "", Bearer(token1), NoJson), "print")
    /\ deleted' = deleted \cup { id1 }
    /\ UNCHANGED << fetch, body, base_keys, r, locals, stdout, sleeps, attempt,
                    accounts, nPost >>

print_license ==
    /\ pc = "print"
    /\ stdout' = Append(stdout, license)
    /\ Goto("report")
    /\ UNCHANGED << fetch, body, base_keys, r, locals, sleeps, attempt, sent,
                    status, accounts, deleted, nReq, nPost >>

(* print(final_license) *)
print ==
    /\ pc = "print"
    /\ stdout' = Append(stdout, final_license)
    /\ Goto("report")
    /\ UNCHANGED << fetch, body, base_keys, r, locals, sleeps, attempt, sent,
                    status, accounts, deleted, nReq, nPost >>

report_without_return ==
    /\ pc = "report"
    /\ stderr' = stderr \o << << "Account Type", 0, account_type >>,
                              << "Data Count GB(s)", referral_count, "" >> >>
    /\ clientOpen' = ClientExit(clientOpen, "")
    /\ pc' = "while"
    /\ UNCHANGED << fetch, body, base_keys, retry_count, r, locals, exc, stdout,
                    sleeps, attempt, sent, status, accounts, deleted, nReq, nPost,
                    exit_status >>

(* the two prints to stderr; return final_license leaves the with block and
   generate_single_key; main returns and the process exits with status 0 *)
report ==
    /\ pc = "report"
    /\ stderr' = stderr \o << << "Account Type", 0, account_type >>,
                              << "Data Count GB(s)", referral_count, "" >> >>
    /\ clientOpen' = ClientExit(clientOpen, "")
    /\ exit_status' = 0
    /\ pc' = "exited"
    /\ UNCHANGED << fetch, body, base_keys, retry_count, r, locals, exc, stdout,
                    sleeps, attempt, sent, status, accounts, deleted, nReq, nPost >>

(* the operator interrupts the statement at pc: KeyboardInterrupt is raised *)
KeyboardInterrupt ==
    /\ pc # "exited"
    /\ IF pc = "get_base_keys"
       THEN get_base_keys_raise("KeyboardInterrupt")
       ELSE /\ Raise("KeyboardInterrupt")
            /\ UNCHANGED << fetch, base_keys >>
    /\ UNCHANGED << body, r, locals, stdout, sleeps, attempt, sent, status,
                    accounts, deleted, nReq, nPost >>

Next ==
    \/ get_base_keys_return
    \/ get_base_keys_except
    \/ while_enter
    \/ while_exit
    \/ sleep_return
    \/ post1
    \/ post2
    \/ patch
    \/ delete2
    \/ put_base_key
    \/ put_license
    \/ get
    \/ delete1
    \/ print
    \/ report
    \/ KeyboardInterrupt

Spec == Init /\ [][Next]_vars

(* get_base_keys taken alone, over every short seed-key document *)
get_base_keys_parse == \E b \in ParseBodies : get_base_keys_ok(b)

NextParse == get_base_keys_parse

SpecParse == Init /\ [][NextParse]_vars

\* every statement of the program returns or raises in the end; the operator
\* need not interrupt
Program ==
    \/ get_base_keys_return
    \/ get_base_keys_except
    \/ while_enter
    \/ while_exit
    \/ sleep_return
    \/ post1
    \/ post2
    \/ patch
    \/ delete2
    \/ put_base_key
    \/ put_license
    \/ get
    \/ delete1
    \/ print
    \/ report

FairSpec == Init /\ [][Next]_vars /\ WF_vars(Program)

----------------------------------------------------------------------------
(* Properties *)

\* the account A of the attempt in progress was registered in that attempt
\* and license is the license its registration response carried
OwnAccountA ==
    /\ id1 \in 1..Len(accounts)
    /\ accounts[id1].attempt = attempt
    /\ accounts[id1].license = license

\* the GET /reg/{id1}/account of the attempt in progress returned r
FinalGetReturned ==
    /\ Len(sent) >= 7
    /\ sent[7] = Request("GET", id1, "account", Bearer(token1), NoJson)
    /\ Has(r.json, "license")

\* C1: when the process has exited with status 0, standard output holds
\* exactly one line, and the line is the license value of the response to the
\* GET /reg/{id}/account of the attempt that succeeded.
C1_StdoutIsFinalLicense ==
    exit_status = 0 =>
        /\ FinalGetReturned
        /\ Len(stdout) = 1
        /\ stdout[1] = r.json.license

\* a run that succeeds on its third attempt with a final license that is not
\* the registration license
C1_Witness ==
    /\ exit_status = 0
    /\ retry_count = 2
    /\ stdout = << r.json.license >>
    /\ r.json.license # license

\* C2 as stated: on every successful run the license on standard output is
\* the license of account A's registration response of the same attempt,
\* whatever the final account-info response holds.
C2_StdoutIsRegistrationLicense ==
    exit_status = 0 => (OwnAccountA /\ stdout = << accounts[id1].license >>)

\* C2 amended: on every successful run the license on standard output is the
\* license of account A's registration response of the same attempt exactly
\* when the final account-info response reports that license; otherwise it is
\* the license the final response reports.
C2_StdoutIsRegistrationLicenseIffReported ==
    exit_status = 0 =>
        /\ OwnAccountA
        /\ FinalGetReturned
        /\ Len(stdout) = 1
        /\ (stdout[1] = accounts[id1].license) <=> (r.json.license = accounts[id1].license)
        /\ stdout[1] \in { accounts[id1].license, r.json.license }

\* a successful run whose final response reports the registration license
C2_Witness ==
    /\ exit_status = 0
    /\ OwnAccountA
    /\ r.json.license = license
    /\ stdout = << license >>

OnlyCommasAndSpace(str) == \A i \in 1..Len(str) : str[i] = "," \/ IsSpace(str[i])

\* C3: when the seed-key source returns an empty body or one made of commas
\* and whitespace only, the pool is the fallback list of 3 entries and the
\* seed selection does not fail.
C3_EmptyBodyUsesFallback ==
    (fetch = "ok" /\ OnlyCommasAndSpace(body)) =>
        /\ base_keys = FallbackKeys
        /\ Len(base_keys) = 3
        /\ exc # "IndexError"

ErrorTexts == { "HTTP error occurred", "Request error occurred", "Unexpected error" }

\* number of failed attempts logged on standard error
FailuresLogged == Cardinality({ i \in 1..Len(stderr) : stderr[i][1] \in ErrorTexts })

\* C4: when the seed-key GET fails (network error, non-2xx status, decode
\* error) the loader returns the fallback list of 3 tokens without raising:
\* control reaches the retry loop, nothing is logged as a fatal error, the
\* attempt counter counts failed attempts only and exhaustion still takes 3
\* attempts.
C4_SeedFailureReturnsFallback ==
    fetch \in SeedFailures =>
        /\ base_keys = FallbackKeys
        /\ Len(base_keys) = 3
        /\ exc \notin SeedFailures
        /\ \A i \in 1..Len(stderr) : stderr[i][1] # "Fatal error"
        /\ retry_count = FailuresLogged
        /\ (attempt = 0 /\ exit_status = Running) => (pc = "while" /\ retry_count = 0)
        /\ exit_status = 1 => attempt = max_retries

\* the seed fetch failed and three attempts were then made and failed
C4_Witness ==
    /\ fetch = "UnicodeDecodeError"
    /\ base_keys = FallbackKeys
    /\ exit_status = 1
    /\ attempt = 3

NonSuccess(code) == code # 0 /\ code \notin 200..299

\* the step completes a request with a non-success status
BadStatusStep == nReq' = nReq + 1 /\ NonSuccess(status')

\* the step aborts the attempt as an HTTP-status failure
AbortsAttempt ==
    /\ retry_count' = retry_count + 1
    /\ pc' \in { "sleep", "while" }
    /\ exc' = "HTTPStatusError"
    /\ stderr' = Append(stderr, << "HTTP error occurred", retry_count + 1, "" >>)

\* C5 as stated: every request of an attempt that completes with a
\* non-success status aborts the attempt at that step and increments the
\* attempt counter.
C5_AnyBadStatusAborts == [][ BadStatusStep => AbortsAttempt ]_vars

\* C5 amended: a POST /reg or the GET that completes with a non-success
\* status aborts the attempt at that step as an HTTP-status failure and
\* increments the attempt counter; a non-success status of the PATCH, of a
\* DELETE or of a PUT is not examined and the attempt goes on to its next step.
C5_CheckedBadStatusAborts ==
    [][ BadStatusStep =>
          IF sent'[Len(sent')].method \in { "POST", "GET" }
          THEN AbortsAttempt
          ELSE /\ retry_count' = retry_count
               /\ pc' \in InWith \ { pc }
               /\ exc' = exc ]_vars

\* the GET of the second attempt returned 500 and the attempt was aborted
C5_Witness ==
    /\ status = 500
    /\ Len(sent) = 7
    /\ exc = "HTTPStatusError"
    /\ pc = "sleep"
    /\ retry_count = 2

Min(a, b) == IF a < b THEN a ELSE b

\* C6: a run that exits with status 1 made exactly 3 attempts and slept
\* exactly twice; the sleeps follow the first and the second failed attempt
\* (each before the next attempt starts) and no sleep follows the third.
C6_ThreeAttemptsTwoSleeps ==
    /\ exit_status = 1 =>
          (attempt = 3 /\ retry_count = 3 /\ Len(sleeps) = 2)
    /\ pc = "sleep" =>
          (retry_count < 3 /\ Len(sleeps) = retry_count - 1)
    /\ (exit_status \in { Running, 0, 1 } /\ pc # "sleep") =>
          Len(sleeps) = Min(retry_count, 2)

\* all three attempts failed, the first with an HTTP error, the second with
\* an uncategorized one
C6_Witness ==
    /\ exit_status = 1
    /\ attempt = 3
    /\ sleeps = << 5, 10 >>

\* C7 as stated: a run that exits with status 1 wrote nothing to standard
\* output, and a license is on standard output only in a run that exits
\* with status 0.
C7_StdoutOnlyOnExitZero ==
    /\ exit_status = 1 => stdout = <<>>
    /\ (stdout # <<>> /\ exit_status # Running) => exit_status = 0

\* C7 amended: a run that exits with status 1 wrote nothing to standard
\* output; a license is on standard output only in a run that exits with
\* status 0, or with status 130 when the operator interrupts it after the
\* license was written; at most one line is ever written.
C7_StdoutNeverOnExitOne ==
    /\ exit_status = 1 => stdout = <<>>
    /\ Len(stdout) <= 1
    /\ (stdout # <<>> /\ exit_status # Running) =>
          \/ exit_status = 0
          \/ exit_status = ExitCancelled /\ exc = "KeyboardInterrupt"

\* POST /reg failed on all 3 attempts
C7_Witness ==
    /\ exit_status = 1
    /\ nPost = 3
    /\ nReq = 3
    /\ accounts = <<>>
    /\ stdout = <<>>

Interrupted == exc = "KeyboardInterrupt" \/ fetch = "KeyboardInterrupt"

CancelledLine == << "Cancelled by user", 0, "" >>

\* C8: an operator interruption, wherever it arrives, ends the run: the
\* process has exited with status 130 and the cancellation message is the
\* last line on standard error; the interruption is not turned into the
\* fallback seed list, does not increment the attempt counter or cause a
\* sleep, and no request, attempt or other step follows it.
C8_InterruptExits130 ==
    /\ [](Interrupted =>
            /\ pc = "exited"
            /\ exit_status = ExitCancelled
            /\ stderr # <<>> /\ stderr[Len(stderr)] = CancelledLine
            /\ retry_count = FailuresLogged
            /\ fetch = "KeyboardInterrupt" => base_keys # FallbackKeys)
    /\ [](exit_status = ExitCancelled => Interrupted)
    /\ [][ /\ ~ Interrupted
           /\ Interrupted' =>
                /\ retry_count' = retry_count
                /\ attempt' = attempt
                /\ nReq' = nReq
                /\ sleeps' = sleeps
                /\ stderr' = Append(stderr, CancelledLine) ]_vars

\* the operator interrupted the sleep that follows the first failed attempt
C8_Witness ==
    /\ Interrupted
    /\ exit_status = ExitCancelled
    /\ retry_count = 1
    /\ attempt = 1
    /\ sleeps = <<>>
    /\ Len(stderr) = 2

\* C9: exactly the positions inside the with block have a client open, and
\* then exactly one: no client is open at the loop test, during a sleep or
\* once the process has exited, whichever way the attempt was left.
C9_ClientScopedToAttempt ==
    clientOpen = IF pc \in InWith THEN 1 ELSE 0

\* the second attempt was left by an operator interruption after it had
\* issued requests, and its client is closed
C9_Witness ==
    /\ pc = "exited"
    /\ exit_status = ExitCancelled
    /\ attempt = 2
    /\ Len(sent) >= 3
    /\ clientOpen = 0

Range(seq) == { seq[i] : i \in 1..Len(seq) }

\* the first PUT of the attempt in progress, as a set of at most one request
FirstPut ==
    { sent[i] : i \in { j \in 1..Len(sent) :
                          /\ sent[j].method = "PUT"
                          /\ \A k \in 1..(j - 1) : sent[k].method # "PUT" } }

\* C10: the license sent by the first PUT /reg/{id}/account of an attempt is
\* an element of the loaded seed pool, and is the pool's entry when the pool
\* has exactly one.
C10_SeedKeyFromPool ==
    \A q \in FirstPut :
        /\ q.sub = "account"
        /\ q.json.license \in Range(base_keys)
        /\ Len(base_keys) = 1 => q.json.license = base_keys[1]

\* the third attempt sent the only entry of a one-entry pool
C10_Witness ==
    /\ Len(base_keys) = 1
    /\ attempt = 3
    /\ FirstPut # {}
    /\ \A q \in FirstPut : q.json.license = K1

\* positions of the commas of str, with 0 and Len(str) + 1 as outer marks
Marks(str) == { 0, Len(str) + 1 } \cup { i \in 1..Len(str) : str[i] = "," }

\* the segment of str that starts after mark m: up to the next mark
SegmentAfter(str, m) ==
    LET next == CHOOSE n \in Marks(str) :
                    n > m /\ \A o \in Marks(str) : o > m => n <= o
    IN  SubSeq(str, m + 1, next - 1)

\* seg without its surrounding whitespace
Trimmed(seg) ==
    LET solid == { i \in 1..Len(seg) : ~ IsSpace(seg[i]) }
    IN  IF solid = {} THEN <<>>
        ELSE SubSeq(seg, CHOOSE i \in solid : \A j \in solid : i <= j,
                         CHOOSE i \in solid : \A j \in solid : i >= j)

\* the marks of str whose segment is not empty once trimmed
KeyMarks(str) ==
    { m \in Marks(str) \ { Len(str) + 1 } : Trimmed(SegmentAfter(str, m)) # <<>> }

\* C11: after a successful seed fetch the pool lists, in the order of the
\* body, the trimmed comma-separated segments of the body that are not
\* empty, one entry per such segment (duplicates kept); "K1, K2 ,K3" gives
\* << K1, K2, K3 >>.
C11_PoolIsTrimmedSegments ==
    fetch = "ok" =>
        /\ Len(base_keys) = Cardinality(KeyMarks(body))
        /\ \A m \in KeyMarks(body) :
              base_keys[Cardinality({ n \in KeyMarks(body) : n <= m })]
                  = Trimmed(SegmentAfter(body, m))
        /\ body = ExampleBody => base_keys = << K1, K2, K3 >>

\* a body with a duplicate, surrounding whitespace and an empty segment
C11_Witness ==
    /\ fetch = "ok"
    /\ body = << "a", ",", " ", "a" >>
    /\ base_keys = << << "a" >>, << "a" >> >>

\* the DELETE of account A was issued by the attempt in progress
DeleteAIssued ==
    /\ Len(sent) = 8
    /\ sent[8] = Request("DELETE", id1, "", Bearer(token1), NoJson)

\* C12: once steps 2-9 of an attempt have completed and the DELETE of account
\* A has been issued, the attempt does not fail whatever the outcome of the
\* DELETE: the run goes on to emit the license and exits with status 0 (or
\* is interrupted), the attempt counter is unchanged and no new attempt starts.
C12_DeleteAIsBestEffort ==
    [][ (pc = "delete1" /\ nReq' = nReq + 1) =>
          /\ DeleteAIssued'
          /\ pc' = "print"
          /\ retry_count' = retry_count
          /\ exc' = exc ]_vars

\* attempts 1..retry_count have failed
FailedAttempt(a) == a \in 1..retry_count

\* C13 as stated: no DELETE is ever issued for an account created in an
\* attempt that fails.
C13_NoDeleteInFailedAttempt ==
    \A i \in deleted : ~ FailedAttempt(accounts[i].attempt)

\* C13 amended: every DELETE is issued by step 5 or step 10 of the attempt in
\* progress, for an account registered in that same attempt; so once an
\* attempt has failed no DELETE is issued for its accounts, neither by its
\* except clause nor by a later attempt, and an account of a failed attempt
\* has a DELETE issued for it only if the attempt reached that step before
\* it failed.
C13_DeleteOnlyByOwnAttempt ==
    [][ \A i \in deleted' \ deleted :
          /\ pc \in { "delete2", "delete1" }
          /\ i = (IF pc = "delete2" THEN id2 ELSE id1)
          /\ i \in 1..Len(accounts)
          /\ accounts[i].attempt = attempt
          /\ ~ FailedAttempt(attempt) ]_vars

\* two attempts failed after deleting their account B, leaving their account
\* A undeleted, and the third attempt has deleted its own account B
C13_Witness ==
    /\ retry_count = 2
    /\ attempt = 3
    /\ Len(accounts) = 6
    /\ deleted = { 2, 4, 6 }

\* the delay the retry policy prescribes for exception class e
PolicyDelay(e) == IF e \in { "HTTPStatusError", "RequestError" } THEN 5 ELSE 10

\* C14: a step that fails an attempt increments the attempt counter by
\* exactly one and logs one diagnostic line carrying the new count, before
\* the process sleeps (attempts remain) or goes to the loop exit; the sleep
\* lasts 5 seconds after an HTTP-status or transport error and 10 seconds
\* after any other error; the next attempt starts only after that sleep.
C14_FailureCountedLoggedThenSleep ==
    /\ [][ retry_count' # retry_count =>
             /\ retry_count' = retry_count + 1
             /\ Len(stderr') = Len(stderr) + 1
             /\ stderr'[Len(stderr')][1] \in ErrorTexts
             /\ stderr'[Len(stderr')][2] = retry_count'
             /\ attempt' = attempt /\ sleeps' = sleeps
             /\ pc' = IF retry_count' < 3 THEN "sleep" ELSE "while" ]_vars
    /\ [][ sleeps' # sleeps =>
             /\ pc = "sleep"
             /\ sleeps' = Append(sleeps, PolicyDelay(exc))
             /\ retry_count' = retry_count ]_vars
    /\ [][ attempt' # attempt =>
             /\ attempt' = attempt + 1
             /\ Len(sleeps) = retry_count
             /\ attempt = retry_count ]_vars
    /\ [](retry_count = FailuresLogged)

\* the first attempt failed on a malformed response, the second on a
\* transport error, and the third attempt has started after both sleeps
C14_Witness ==
    /\ attempt = 3
    /\ pc = "post1"
    /\ sleeps = << 10, 5 >>
    /\ stderr = << << "Unexpected error", 1, "" >>, << "Request error occurred", 2, "" >> >>

\* the requests of one attempt in program order, with the values the locals
\* hold now
ProgramOrder ==
    << Request("POST", 0, "", <<>>, NoJson),
       Request("POST", 0, "", <<>>, NoJson),
       Request("PATCH", id1, "", Bearer(token1), [ referrer |-> id2 ]),
       Request("DELETE", id2, "", Bearer(token2), NoJson),
       Request("PUT", id1, "account", Bearer(token1), [ license |-> base_key ]),
       Request("PUT", id1, "account", Bearer(token1), [ license |-> license ]),
       Request("GET", id1, "account", Bearer(token1), NoJson),
       Request("DELETE", id1, "", Bearer(token1), NoJson) >>

\* C15: the requests issued by an attempt are always an initial part of POST
\* /reg, POST /reg, PATCH /reg/A, DELETE /reg/B, PUT seed key, PUT original
\* license, GET /reg/A/account, DELETE /reg/A; a step issues at most one
\* request, the next in that order; the license is on standard output only
\* once the GET has returned and the DELETE of A has been issued.
C15_RequestsInProgramOrder ==
    /\ [](/\ Len(sent) <= 8
          /\ \A i \in 1..Len(sent) : sent[i] = ProgramOrder[i]
          /\ stdout # <<>> => (FinalGetReturned /\ Len(sent) = 8))
    /\ [][ sent' # sent =>
             \/ sent' = <<>> /\ attempt' = attempt + 1
             \/ sent' = Append(sent, ProgramOrder'[Len(sent) + 1]) ]_vars

\* the third attempt has issued all eight requests
C15_Witness ==
    /\ attempt = 3
    /\ Len(sent) = 8
    /\ sent[5].json.license # sent[6].json.license
    /\ pc = "print"

\* C16: once the license is on standard output no attempt is started, no
\* HTTP request is issued and nothing more is written to standard output;
\* the only steps left are the report and return, or an interruption; a run
\* writes at most one line to standard output.
C16_SuccessEndsWorkflow ==
    /\ [][ stdout # <<>> =>
             /\ attempt' = attempt
             /\ nReq' = nReq /\ sent' = sent
             /\ stdout' = stdout
             /\ pc' = "exited" ]_vars
    /\ [](Len(stdout) <= 1)

\* the second attempt succeeded and the process exited
C16_Witness ==
    /\ exit_status = 0
    /\ attempt = 2
    /\ retry_count = 1
    /\ Len(stdout) = 1
    /\ nReq <= 16

\* ids of the accounts registered by the attempt in progress, in order
OwnAccounts == { i \in 1..Len(accounts) : accounts[i].attempt = attempt }

\* C17: an attempt begins with its own registrations, and every later
\* request of the attempt addresses an account registered in that attempt
\* with that account's own token: account A is the first account of the
\* attempt, the PATCH names the attempt's account B as referrer, the DELETE of
\* B carries B's token, and the restoring PUT carries the license A got at
\* its registration in this attempt.
C17_RequestsUseOwnRegistrations ==
    /\ \A i \in 1..Len(sent) :
          IF i <= 2
          THEN sent[i].method = "POST" /\ sent[i].id = 0 /\ sent[i].auth = <<>>
          ELSE /\ sent[i].id \in OwnAccounts
               /\ sent[i].auth = Bearer(TokenOf(sent[i].id))
               /\ sent[i].method = "PATCH" =>
                     /\ sent[i].json.referrer \in OwnAccounts
                     /\ sent[i].json.referrer > sent[i].id
               /\ (sent[i].method = "DELETE" /\ i = 4) =>
                     sent[i].id = sent[3].json.referrer
               /\ sent[i].method # "DELETE" \/ i = 8 =>
                     \A j \in OwnAccounts : sent[i].id <= j
               /\ i = 6 => sent[i].json.license = accounts[sent[i].id].license
    /\ Len(sent) >= 3 => Cardinality(OwnAccounts) = 2

\* the third attempt, after two attempts that had registered accounts, has
\* issued its eight requests on accounts 5 and 6
C17_Witness ==
    /\ attempt = 3
    /\ Len(accounts) = 6
    /\ Len(sent) = 8
    /\ sent[8].id = 5
    /\ sent[4].id = 6

\* C18: the seed pool is loaded once, before the first attempt, and no later
\* step changes it or loads it again; an empty pool therefore stops every
\* attempt at the seed selection: no PUT is issued and the run cannot exit
\* with status 0.
C18_PoolLoadedOnce ==
    /\ [][ pc # "get_base_keys" =>
             /\ base_keys' = base_keys
             /\ fetch' = fetch /\ body' = body
             /\ pc' # "get_base_keys" ]_vars
    /\ [](pc = "get_base_keys" => (attempt = 0 /\ fetch = "pending"))
    /\ [](attempt > 0 => fetch \in { "ok" } \cup SeedFailures)
    /\ []((fetch # "pending" /\ base_keys = <<>>) =>
             /\ Len(sent) <= 4
             /\ exit_status # 0
             /\ stdout = <<>>
             /\ pc \notin { "put_license", "get", "delete1", "print", "report" })

\* the empty pool made the seed selection fail in all three attempts
C18_Witness ==
    /\ fetch = "ok"
    /\ base_keys = <<>>
    /\ exit_status = 1
    /\ Len(sent) = 4
    /\ nReq = 12
    /\ sleeps = << 10, 10 >>

ReportLines ==
    << << "Account Type", 0, account_type >>,
       << "Data Count GB(s)", referral_count, "" >> >>

\* C19: if every statement eventually returns or raises, the process exits,
\* with status 0, 1 or 130; it exits with status 0 exactly when an attempt
\* ran through the DELETE of account A and the prints without an exception,
\* and with status 1 only when the attempt counter is 3.
C19_RunTerminates ==
    /\ <>(pc = "exited")
    /\ [](pc = "exited" <=> exit_status # Running)
    /\ [](exit_status \in { Running, 0, 1, ExitCancelled })
    /\ [](exit_status = 0 =>
             /\ DeleteAIssued
             /\ Len(stdout) = 1
             /\ Len(stderr) >= 2
             /\ SubSeq(stderr, Len(stderr) - 1, Len(stderr)) = ReportLines
             /\ ~ Interrupted)
    /\ [][ (pc = "report" /\ ~ Interrupted') => exit_status' = 0 ]_vars
    /\ [](exit_status = 1 => (retry_count = 3 /\ ~ Interrupted))

\* a run that exited with status 0 on its second attempt
C19_Witness ==
    /\ pc = "exited"
    /\ exit_status = 0
    /\ retry_count = 1
    /\ DeleteAIssued

\* C20: the attempt counter stays within 0..3 and never decreases, at most 3
\* attempts are started, at most 6 POST /reg and at most 24 provider-API
\* requests are issued, and every diagnostic line shows an attempt number
\* within 1..3.
C20_CountersBounded ==
    /\ [](/\ retry_count \in 0..3
          /\ attempt \in 0..3
          /\ nPost <= 6
          /\ nReq <= 24
          /\ \A i \in 1..Len(stderr) :
                stderr[i][1] \in ErrorTexts => stderr[i][2] \in 1..3)
    /\ [][ retry_count' >= retry_count /\ attempt' >= attempt ]_vars

\* three attempts that each issued all their requests
C20_Witness ==
    /\ nReq = 24
    /\ nPost = 6
    /\ attempt = 3
    /\ retry_count = 3

====
